---- MODULE Spec2Model ----
(***************************************************************************)
(* pandoc-sieve: the frontmatter-aware build driver (src/sieve/build.py)   *)
(* and the mermaid diagram filter (src/sieve/mermaid.py).                  *)
(*                                                                         *)
(* Text is a sequence of one-character strings, so that Python's slicing,  *)
(* find/rfind, strip and split are computed character by character.        *)
(***************************************************************************)
EXTENDS Integers, Sequences, FiniteSets, TLC

(***************************************************************************)
(* Python str primitives                                                   *)
(***************************************************************************)
Min(a, b) == IF a < b THEN a ELSE b

Max(a, b) == IF a > b THEN a ELSE b

\* str.isspace() for the characters that occur in the modelled texts
Whitespace == {" ", "\n"}

\* s[a:b] with Python's treatment of negative and out-of-range indices
PySlice(s, a, b) ==
    LET n  == Len(s)
        lo == IF a < 0 THEN Max(n + a, 0) ELSE Min(a, n)
        hi == IF b < 0 THEN Max(n + b, 0) ELSE Min(b, n)
    IN  SubSeq(s, lo + 1, hi)

\* s[a:]
PySliceFrom(s, a) == PySlice(s, a, Len(s))

\* s occurs in t at 0-based offset i
OccursAt(t, s, i) ==
    /\ i >= 0
    /\ i + Len(s) <= Len(t)
    /\ \A j \in 1..Len(s) : t[i + j] = s[j]

\* str.startswith
StartsWith(t, s) == OccursAt(t, s, 0)

\* str.find(s, start): lowest 0-based offset >= start, or -1
Find(t, s, start) ==
    LET hits == {i \in start..(Len(t) - Len(s)) : OccursAt(t, s, i)}
    IN  IF hits = {} THEN -1 ELSE CHOOSE i \in hits : \A j \in hits : i <= j

\* str.rfind(s): highest 0-based offset, or -1
RFind(t, s) ==
    LET hits == {i \in 0..(Len(t) - Len(s)) : OccursAt(t, s, i)}
    IN  IF hits = {} THEN -1 ELSE CHOOSE i \in hits : \A j \in hits : i >= j

\* str.lstrip(chars)
LStripChars(s, chars) ==
    LET keep == {i \in 1..Len(s) : s[i] \notin chars}
    IN  IF keep = {} THEN <<>>
        ELSE SubSeq(s, CHOOSE i \in keep : \A j \in keep : i <= j, Len(s))

\* str.rstrip(chars)
RStripChars(s, chars) ==
    LET keep == {i \in 1..Len(s) : s[i] \notin chars}
    IN  IF keep = {} THEN <<>>
        ELSE SubSeq(s, 1, CHOOSE i \in keep : \A j \in keep : i >= j)

\* str.strip(chars)
StripChars(s, chars) == RStripChars(LStripChars(s, chars), chars)

\* str.lstrip()
LStrip(s) == LStripChars(s, Whitespace)

\* str.strip()
Strip(s) == StripChars(s, Whitespace)

\* str.split(sep)[1]: the piece between the first and the second occurrence
SplitSecond(s, sep) ==
    LET i    == Find(s, sep, 0)
        rest == PySliceFrom(s, i + Len(sep))
        j    == Find(rest, sep, 0)
    IN  IF j = -1 THEN rest ELSE PySlice(rest, 0, j)

\* str.splitlines() on "\n"
RECURSIVE SplitLines(_)
SplitLines(s) ==
    IF s = <<>> THEN <<>>
    ELSE LET i == Find(s, <<"\n">>, 0)
         IN  IF i = -1 THEN <<s>>
             ELSE <<PySlice(s, 0, i)>> \o SplitLines(PySliceFrom(s, i + 1))

(***************************************************************************)
(* The YAML library, as far as build.py uses it: flat mappings of plain    *)
(* string scalars, the empty mapping, null, and a single plain scalar.     *)
(* A loaded value is a record: kind "map" (m: key -> value), "none"        *)
(* (Python None), "str" (s: the scalar), or "error" (YAMLError raised).    *)
(***************************************************************************)
Txt_Marker == <<"-", "-", "-">>

Txt_ColonSpace == <<":", " ">>

Txt_EmptyFlow == <<"{", "}">>

Txt_Null == <<"n", "u", "l", "l">>

Txt_DocEnd == <<".", ".", ".">>

\* the value PyYAML gives a key written without a value ("k:")
NullScalar == <<"null">>

EmptyFn == [k \in {} |-> <<>>]

YMap(f) == [kind |-> "map", m |-> f, s |-> <<>>]

YNone == [kind |-> "none", m |-> EmptyFn, s |-> <<>>]

YStr(t) == [kind |-> "str", m |-> EmptyFn, s |-> t]

YError == [kind |-> "error", m |-> EmptyFn, s |-> <<>>]

\* code-point order of the characters that occur in keys
CharRank(c) ==
    CASE c = " " -> 0 [] c = "\"" -> 1 [] c = "'" -> 2 [] c = "-" -> 3
      [] c = "a" -> 10 [] c = "b" -> 11 [] c = "c" -> 12 [] c = "k" -> 13
      [] c = "t" -> 14 [] c = "z" -> 15 [] OTHER -> 20

RECURSIVE TextLess(_, _)
TextLess(a, b) ==
    IF a = <<>> THEN b # <<>>
    ELSE IF b = <<>> THEN FALSE
    ELSE IF CharRank(Head(a)) # CharRank(Head(b))
         THEN CharRank(Head(a)) < CharRank(Head(b))
         ELSE TextLess(Tail(a), Tail(b))

\* sorted(keys): yaml.dump sorts the keys of a mapping
RECURSIVE SortedKeys(_)
SortedKeys(S) ==
    IF S = {} THEN <<>>
    ELSE LET least == CHOOSE k \in S : \A o \in S \ {k} : TextLess(k, o)
         IN  <<least>> \o SortedKeys(S \ {least})

RECURSIVE DumpEntries(_, _)
DumpEntries(f, keys) ==
    IF keys = <<>> THEN <<>>
    ELSE Head(keys) \o Txt_ColonSpace \o f[Head(keys)] \o <<"\n">>
         \o DumpEntries(f, Tail(keys))

\* yaml.dump(value)
YamlDump(v) ==
    CASE v.kind = "map" ->
            IF DOMAIN v.m = {} THEN Txt_EmptyFlow \o <<"\n">>
            ELSE DumpEntries(v.m, SortedKeys(DOMAIN v.m))
      [] v.kind = "none" -> Txt_Null \o <<"\n">> \o Txt_DocEnd \o <<"\n">>
      [] OTHER -> v.s \o <<"\n">> \o Txt_DocEnd \o <<"\n">>

\* the non-blank lines of a YAML text, without a closing "..." line
YamlLines(text) ==
    LET all  == SplitLines(text)
        some == SelectSeq(all, LAMBDA l : Strip(l) # <<>>)
    IN  IF some # <<>> /\ some[Len(some)] = Txt_DocEnd
        THEN SubSeq(some, 1, Len(some) - 1) ELSE some

\* a line "key: value" or "key:"
IsEntryLine(l) ==
    \/ Find(l, Txt_ColonSpace, 0) > 0
    \/ (Len(l) > 1 /\ l[Len(l)] = ":")

EntryKey(l) ==
    IF Find(l, Txt_ColonSpace, 0) > 0
    THEN PySlice(l, 0, Find(l, Txt_ColonSpace, 0))
    ELSE PySlice(l, 0, Len(l) - 1)

EntryValue(l) ==
    IF Find(l, Txt_ColonSpace, 0) > 0
    THEN PySliceFrom(l, Find(l, Txt_ColonSpace, 0) + 2)
    ELSE NullScalar

RECURSIVE JoinLines(_)
JoinLines(ls) ==
    IF Len(ls) = 1 THEN Strip(ls[1])
    ELSE Strip(ls[1]) \o <<" ">> \o JoinLines(Tail(ls))

\* yaml.safe_load(text)
YamlSafeLoad(text) ==
    LET ls == YamlLines(text)
        n  == Len(ls)
    IN  IF n = 0 THEN YNone
        ELSE IF ls = <<Txt_Null>> THEN YNone
        ELSE IF ls = <<Txt_EmptyFlow>> THEN YMap(EmptyFn)
        ELSE IF \A i \in 1..n : IsEntryLine(ls[i])
        THEN YMap([k \in {EntryKey(ls[i]) : i \in 1..n} |->
                     EntryValue(ls[CHOOSE i \in 1..n :
                         /\ EntryKey(ls[i]) = k
                         /\ \A j \in 1..n : EntryKey(ls[j]) = k => j <= i])])
        ELSE IF \A i \in 1..n : ~IsEntryLine(ls[i]) THEN YStr(JoinLines(ls))
        ELSE YError

(***************************************************************************)
(* frontmatter (build.py 26-33)                                            *)
(***************************************************************************)
\* frontmatter with markdown.lstrip() for its first statement
frontmatter_LStripOnly(markdown) ==
    LET md == LStrip(markdown)
    IN  IF StartsWith(md, Txt_Marker)
        THEN LET mapping == PySlice(md, Len(Txt_Marker),
                                    Find(md, Txt_Marker, Len(Txt_Marker)))
                 rest    == LStrip(PySliceFrom(md, Len(mapping) + 2 * Len(Txt_Marker)))
             IN  [loaded |-> YamlSafeLoad(mapping), body |-> rest]
        ELSE [loaded |-> YMap(EmptyFn), body |-> md]

\* frontmatter(markdown): loaded is what yaml.safe_load returns (kind
\* "error": the call raises YAMLError), body the remaining text
frontmatter(markdown) ==
    LET md == Strip(markdown)
    IN  IF StartsWith(md, Txt_Marker)
        THEN LET mapping == PySlice(md, Len(Txt_Marker),
                                    Find(md, Txt_Marker, Len(Txt_Marker)))
                 rest    == LStrip(PySliceFrom(md, Len(mapping) + 2 * Len(Txt_Marker)))
             IN  [loaded |-> YamlSafeLoad(mapping), body |-> rest]
        ELSE [loaded |-> YMap(EmptyFn), body |-> md]

(***************************************************************************)
(* Bounds of the model                                                     *)
(***************************************************************************)
\* frontmatter keys of the driver's input documents
MaxKeys == 2

\* converter invocations explored in one driver run
MaxInvokes == 5

(***************************************************************************)
(* State                                                                   *)
(***************************************************************************)
VARIABLES
    \* build driver (main / main_from_markdown / using_defaults)
    pc,          \* position in the driver's loop
    input,       \* text of the input file
    fm,          \* the frontmatter value (a loaded YAML value)
    diag,        \* "Unable to find frontmatter" was printed
    files,       \* PATH_BUILD/build.*.yml: file id -> text
    path,        \* the path bound inside using_defaults (0: unbound)
    created,     \* temporary files created so far (names are unique)
    res,         \* e.stderr of the CalledProcessError being handled
    exit,        \* how the process ended
    \* the converter and what it did (environment and history)
    conv,        \* the converter: any outcome, or the stub for a set U
    outcome,     \* outcome of the last invocation
    named,       \* option named by the last unknown-option error
    fm0,         \* the frontmatter value the loop started from
    invokes,     \* converter invocations so far
    misses,      \* unknown-option errors that named no key of fm
    lastDefaults \* the defaults the converter read in the last invocation

driverVars == <<pc, input, fm, diag, files, path, created, res, exit,
                conv, outcome, named, fm0, invokes, misses, lastDefaults>>

\* frontmatter applied to a text (build.py 26-33)
VARIABLES
    doc,     \* the text handed to frontmatter
    given,   \* the mapping and body the text was built from, if it was
    fmres    \* what frontmatter did: pending, returned (loaded, body), raised

fmVars == <<doc, given, fmres>>

\* outline_as_tree (build.py 83-105)
VARIABLES
    heads,   \* the outline: a sequence of [level, title]
    done,    \* headings consumed by the for loop
    nodes,   \* the dicts: node id -> its items in insertion order,
             \* each item [key |-> title, val |-> node id]; node 1 is tree
    stack,   \* the stack of [level, node]
    otree,   \* the value returned
    opc      \* "loop" or "returned"

outlineVars == <<heads, done, nodes, stack, otree, opc>>

\* the mermaid filter (mermaid.py 37-90)
VARIABLES
    elem,      \* the element the walk hands to the filter
    docformat, \* doc.format
    rendered,  \* mmdc exits with status 0 for this source
    mres       \* what the filter did

mermaidVars == <<elem, docformat, rendered, mres>>

vars == <<driverVars, fmVars, outlineVars, mermaidVars>>

\* what the build driver leaves alone
notDriver == <<fmVars, outlineVars, mermaidVars>>

notFm == <<driverVars, outlineVars, mermaidVars>>

notOutline == <<driverVars, fmVars, mermaidVars>>

notMermaid == <<driverVars, fmVars, outlineVars>>

(***************************************************************************)
(* Inputs of the build driver                                              *)
(***************************************************************************)
Txt_UnknownOption ==
    <<"U", "n", "k", "n", "o", "w", "n", " ", "o", "p", "t", "i", "o", "n">>

Txt_Open == Txt_Marker \o <<"\n">>

KeyList == << <<"a">>, <<"a", "b">>, <<"b">>, <<"c">> >>

DriverKeys == {KeyList[i] : i \in 1..Min(MaxKeys, Len(KeyList))}

\* an option name that is never a frontmatter key
AbsentName == <<"z">>

OptionNames == DriverKeys \cup {AbsentName}

KeyValue(k) == <<"v">> \o k

DriverMaps == {[k \in K |-> KeyValue(k)] : K \in SUBSET DriverKeys}

\* input files: frontmatter blocks for every mapping, no frontmatter, an
\* empty block, a block that is one plain scalar, a block that is not YAML
DriverDocs ==
    {Txt_Open \o YamlDump(YMap(f)) \o Txt_Open \o <<"x">> : f \in DriverMaps}
    \cup {<<"x">>,
          Txt_Open \o Txt_Open \o <<"x">>,
          Txt_Open \o <<"a", "b", "\n">> \o Txt_Open \o <<"x">>,
          Txt_Open \o <<"a", ":", " ", "x", "\n", "b", "\n">> \o Txt_Open \o <<"x">>}

\* how the converter words an unknown-option error
ErrFormats ==
    [head  : {<<>>, <<"E", ":", " ">>},
     quote : {"'", "\""},
     tail  : {<<>>, <<"\n">>, <<"\n", "T", "r", "y", "\n">>}]

\* the stub writes it as  Unknown option 'k'
StubFormats == {f \in ErrFormats : f.head = <<>> /\ f.quote = "'"}

ErrText(f, name) ==
    f.head \o Txt_UnknownOption \o <<" ", f.quote>> \o name \o <<f.quote>> \o f.tail

\* error output of a failure that is no unknown-option error
OtherErrors == {<<>>, <<"E", ":", " ", "b", "o", "o", "m", "\n">>}

Converters ==
    {[mode |-> "any", U |-> {}]}
    \cup {[mode |-> "stub", U |-> U] : U \in SUBSET OptionNames}

(***************************************************************************)
(* main_from_markdown: parsing the converter's error output (139-147)      *)
(***************************************************************************)
\* idx := res.rfind("Unknown option")
UnknownOptionIndex(r) == RFind(r, Txt_UnknownOption)

\* line = res[idx : res.find("\n", idx)].strip()
OptionLine(r) ==
    LET idx == UnknownOptionIndex(r)
    IN  Strip(PySlice(r, idx, Find(r, <<"\n">>, idx)))

\* the parse without its last step, .strip("'\"")
ParseOption_KeepQuotes(r) ==
    Strip(SplitSecond(OptionLine(r), Txt_UnknownOption))

\* option = line.split("Unknown option")[1].strip().strip("'\"")
ParseOption(r) ==
    StripChars(Strip(SplitSecond(OptionLine(r), Txt_UnknownOption)), {"'", "\""})

\* fm.get(option, None) in place of fm.pop: nothing is removed
DictPop_Get(f, k) == f

\* fm.pop(option, None) on a dict
DictPop(f, k) == [x \in DOMAIN f \ {k} |-> f[x]]

(***************************************************************************)
(* The build driver: main, main_from_markdown, using_defaults              *)
(***************************************************************************)
Running == [code |-> -1, traceback |-> FALSE]

DriverInit ==
    /\ pc = "START"
    /\ input \in DriverDocs
    /\ conv \in Converters
    /\ fm = YNone
    /\ fm0 = YNone
    /\ diag = FALSE
    /\ files = EmptyFn
    /\ path = 0
    /\ created = 0
    /\ res = <<>>
    /\ exit = Running
    /\ outcome = "none"
    /\ named = <<>>
    /\ invokes = 0
    /\ misses = 0
    /\ lastDefaults = YNone

\* lines 113-126: read the input, extract the frontmatter; a YAMLError is
\* reported and the frontmatter taken to be {}
Start ==
    /\ pc = "START"
    /\ LET got == frontmatter(input).loaded
           val == IF got.kind = "error" THEN YMap(EmptyFn) ELSE got
       IN  /\ fm' = val
           /\ fm0' = val
           /\ diag' = (got.kind = "error")
    /\ pc' = "WRITE_DEFAULTS"
    /\ UNCHANGED <<input, files, path, created, res, exit, conv, outcome,
                   named, invokes, misses, lastDefaults>>
    /\ UNCHANGED notDriver

\* using_defaults 49-56: NamedTemporaryFile creates a file of a fresh name,
\* yaml.dump writes the frontmatter into it, path is bound, the body runs
WriteDefaults ==
    /\ pc = "WRITE_DEFAULTS"
    /\ invokes < MaxInvokes
    /\ created' = created + 1
    /\ path' = created + 1
    /\ files' = [i \in DOMAIN files \cup {created + 1} |->
                    IF i = created + 1 THEN YamlDump(fm) ELSE files[i]]
    /\ pc' = "INVOKE"
    /\ UNCHANGED <<input, fm, diag, res, exit, conv, outcome, named, fm0,
                   invokes, misses, lastDefaults>>
    /\ UNCHANGED notDriver

\* using_defaults 51-59 when writing fails (OSError from yaml.dump or from
\* closing the file): the file exists (delete=False) but path was never
\* bound, so path.unlink raises NameError, which suppress(Exception)
\* swallows; the OSError leaves main_from_markdown and main uncaught
WriteDefaultsFail ==
    /\ pc = "WRITE_DEFAULTS"
    /\ invokes < MaxInvokes
    /\ created' = created + 1
    /\ files' = [i \in DOMAIN files \cup {created + 1} |->
                    IF i = created + 1 THEN <<>> ELSE files[i]]
    /\ path' = 0
    /\ pc' = "CRASH"
    /\ UNCHANGED <<input, fm, diag, res, exit, conv, outcome, named, fm0,
                   invokes, misses, lastDefaults>>
    /\ UNCHANGED notDriver

\* using_defaults 57-59: path.unlink(missing_ok=True)
Unlink(fs, p) == [i \in DOMAIN fs \ {p} |-> fs[i]]

\* the keys of the defaults the converter reads from the file
DefaultsKeys(text) ==
    LET v == YamlSafeLoad(text) IN IF v.kind = "map" THEN DOMAIN v.m ELSE {}

\* the converter may succeed: any converter may; the stub does when the
\* defaults hold no key of U
MaySucceed == conv.mode = "any" \/ DefaultsKeys(files[path]) \cap conv.U = {}

\* the names the converter may report unknown
MayName ==
    IF conv.mode = "any" THEN OptionNames
    ELSE DefaultsKeys(files[path]) \cap conv.U

\* lines 129-137: pandoc returns 0; the scope is left (the file unlinked),
\* the details are printed, the loop ends
InvokeSuccess ==
    /\ pc = "INVOKE"
    /\ MaySucceed
    /\ invokes' = invokes + 1
    /\ lastDefaults' = YamlSafeLoad(files[path])
    /\ outcome' = "ok"
    /\ files' = Unlink(files, path)
    /\ pc' = "DONE"
    /\ UNCHANGED <<input, fm, diag, path, created, res, exit, conv, named,
                   fm0, misses>>
    /\ UNCHANGED notDriver

\* lines 129-130, 138-145: pandoc exits non-zero (CalledProcessError with
\* its stderr); the scope is left (the file unlinked); the handler looks for
\* "Unknown option" and re-raises when it is not there
Handle_Inverted(e) ==
    /\ res' = e
    /\ pc' = IF UnknownOptionIndex(e) # -1 THEN "FAIL" ELSE "STRIP_KEY"

Handle(e) ==
    /\ res' = e
    /\ pc' = IF UnknownOptionIndex(e) = -1 THEN "FAIL" ELSE "STRIP_KEY"

InvokeUnknownOption ==
    /\ pc = "INVOKE"
    /\ \E k \in MayName :
         \E f \in (IF conv.mode = "any" THEN ErrFormats ELSE StubFormats) :
            /\ named' = k
            /\ Handle(ErrText(f, k))
    /\ invokes' = invokes + 1
    /\ lastDefaults' = YamlSafeLoad(files[path])
    /\ outcome' = "unknown"
    /\ files' = Unlink(files, path)
    /\ UNCHANGED <<input, fm, diag, path, created, exit, conv, fm0, misses>>
    /\ UNCHANGED notDriver

InvokeOtherError ==
    /\ pc = "INVOKE"
    /\ conv.mode = "any"
    /\ \E e \in OtherErrors : Handle(e)
    /\ invokes' = invokes + 1
    /\ lastDefaults' = YamlSafeLoad(files[path])
    /\ outcome' = "other"
    /\ files' = Unlink(files, path)
    /\ UNCHANGED <<input, fm, diag, path, created, exit, conv, named, fm0,
                   misses>>
    /\ UNCHANGED notDriver

\* lines 146-148 with fm a dict: the option is parsed out of the error
\* output and popped; the loop goes round
StripKey ==
    /\ pc = "STRIP_KEY"
    /\ fm.kind = "map"
    /\ fm' = YMap(DictPop(fm.m, ParseOption(res)))
    /\ misses' = IF named \in DOMAIN fm.m THEN misses ELSE misses + 1
    /\ pc' = "WRITE_DEFAULTS"
    /\ UNCHANGED <<input, diag, files, path, created, res, exit, conv,
                   outcome, named, fm0, invokes, lastDefaults>>
    /\ UNCHANGED notDriver

\* line 148 with fm None or a str (what yaml.safe_load gave for an empty or
\* scalar block): fm.pop raises AttributeError, caught by nobody
StripKeyNoDict ==
    /\ pc = "STRIP_KEY"
    /\ fm.kind # "map"
    /\ pc' = "CRASH"
    /\ UNCHANGED <<input, fm, diag, files, path, created, res, exit, conv,
                   outcome, named, fm0, invokes, misses, lastDefaults>>
    /\ UNCHANGED notDriver

\* main without its except clause: the CalledProcessError is not caught
MainExit_NoCatch ==
    /\ pc \in {"DONE", "FAIL", "CRASH"}
    /\ exit = Running
    /\ exit' = IF pc = "DONE" THEN [code |-> 0, traceback |-> FALSE]
                ELSE [code |-> 1, traceback |-> TRUE]
    /\ UNCHANGED <<pc, input, fm, diag, files, path, created, res, conv,
                   outcome, named, fm0, invokes, misses, lastDefaults>>
    /\ UNCHANGED notDriver

\* main 167-172: a CalledProcessError becomes sys.exit(1); a return is exit
\* status 0; any other exception ends the interpreter with a traceback and
\* status 1
MainExit ==
    /\ pc \in {"DONE", "FAIL", "CRASH"}
    /\ exit = Running
    /\ exit' = CASE pc = "DONE" -> [code |-> 0, traceback |-> FALSE]
                 [] pc = "FAIL" -> [code |-> 1, traceback |-> FALSE]
                 [] OTHER       -> [code |-> 1, traceback |-> TRUE]
    /\ UNCHANGED <<pc, input, fm, diag, files, path, created, res, conv,
                   outcome, named, fm0, invokes, misses, lastDefaults>>
    /\ UNCHANGED notDriver

(***************************************************************************)
(* frontmatter applied to document texts                                   *)
(***************************************************************************)
\* whitespace characters put before and after a text
MaxPad == 1

\* keys of the mappings that are dumped into a frontmatter block
MaxFmKeys == 2


RECURSIVE Texts(_, _)
\* the texts over the characters cs of length at most n
Texts(cs, n) ==
    IF n = 0 THEN {<<>>}
    ELSE LET shorter == Texts(cs, n - 1)
         IN  shorter \cup {<<c>> \o t : c \in cs, t \in shorter}

Pads == Texts(Whitespace, MaxPad)

FmKeyList == << <<"a">>, <<"b", "-", "-", "-", "c">>, <<"t">>, <<"k">> >>

FmKeys == {FmKeyList[i] : i \in 1..Min(MaxFmKeys, Len(FmKeyList))}

FmValues == {<<"x">>, <<"y", "-", "-", "-", "z">>}

FmMaps == UNION {[K -> FmValues] : K \in SUBSET FmKeys}

BodyCores == {<<>>, <<"x">>, <<"x", "\n">> \o Txt_Open \o <<"y">>}

FmBodies == {l \o b \o t : l \in Pads, b \in BodyCores, t \in Pads}

\* "---\n" + dump(M) + "\n---\n" + body
BuiltDoc(M, body) ==
    Txt_Open \o YamlDump(YMap(M)) \o <<"\n">> \o Txt_Open \o body

\* texts written by hand: no frontmatter, a heading, a dash run inside the
\* text, a frontmatter block, a block that is not YAML
RawCores ==
    {<<"x">>,
     <<"#", " ", "h", "\n", "x">>,
     <<"x", "-", "-", "-">>,
     Txt_Open \o <<"a", ":", " ", "x", "\n">> \o Txt_Open \o <<"x">>,
     Txt_Open \o <<"a", ":", " ", "x", "\n", "b", "\n">> \o Txt_Open \o <<"x">>}

Pending == [st |-> "pending", loaded |-> YNone, body |-> <<>>]

FmInit ==
    /\ \/ \E M \in FmMaps, b \in FmBodies :
             /\ doc = BuiltDoc(M, b)
             /\ given = [kind |-> "built", M |-> M, body |-> b]
       \/ \E l \in Pads, c \in RawCores, t \in Pads :
             /\ doc = l \o c \o t
             /\ given = [kind |-> "raw", M |-> EmptyFn, body |-> <<>>]
    /\ fmres = Pending

FmIdle ==
    /\ doc = <<>>
    /\ given = [kind |-> "raw", M |-> EmptyFn, body |-> <<>>]
    /\ fmres = Pending

\* frontmatter returns (lines 32, 33)
FmReturn ==
    /\ fmres.st = "pending"
    /\ frontmatter(doc).loaded.kind # "error"
    /\ fmres' = [st |-> "returned", loaded |-> frontmatter(doc).loaded,
                 body |-> frontmatter(doc).body]
    /\ UNCHANGED <<doc, given>>
    /\ UNCHANGED notFm

\* yaml.safe_load raises YAMLError out of frontmatter (line 32)
FmRaise ==
    /\ fmres.st = "pending"
    /\ frontmatter(doc).loaded.kind = "error"
    /\ fmres' = [st |-> "raised", loaded |-> YError, body |-> <<>>]
    /\ UNCHANGED <<doc, given>>
    /\ UNCHANGED notFm

(***************************************************************************)
(* outline_as_tree (build.py 83-105)                                       *)
(***************************************************************************)
\* headings in an outline
MaxHeadings == 3

\* heading levels used (Markdown has 1..6)
MaxLevel == 3

\* distinct heading titles
MaxTitles == 2


TitleList == <<"A", "B", "C", "D">>

Titles == {TitleList[i] : i \in 1..Min(MaxTitles, Len(TitleList))}

Headings == [level : 1..MaxLevel, title : Titles]

RECURSIVE SeqsUpTo(_, _)
SeqsUpTo(S, n) ==
    IF n = 0 THEN {<<>>}
    ELSE LET shorter == SeqsUpTo(S, n - 1)
         IN  shorter \cup {Append(q, x) : q \in shorter, x \in S}

OutlineInit ==
    /\ heads \in SeqsUpTo(Headings, MaxHeadings)
    /\ done = 0
    /\ nodes = << <<>> >>
    /\ stack = << [level |-> 0, node |-> 1] >>
    /\ otree = <<>>
    /\ opc = "loop"

OutlineIdle ==
    /\ heads = <<>>
    /\ done = 0
    /\ nodes = << <<>> >>
    /\ stack = << [level |-> 0, node |-> 1] >>
    /\ otree = <<>>
    /\ opc = "returned"

\* lines 90-91: while stack and stack[-1][0] >= level: stack.pop()
RECURSIVE PopTo(_, _)
PopTo(st, level) ==
    IF st # <<>> /\ st[Len(st)].level >= level
    THEN PopTo(SubSeq(st, 1, Len(st) - 1), level)
    ELSE st

\* line 93, parent[title] = node: a key the dict holds keeps its place and
\* gets the new value, a new key goes last
DictSet(items, title, node) ==
    IF \E i \in 1..Len(items) : items[i].key = title
    THEN [i \in 1..Len(items) |->
            IF items[i].key = title THEN [key |-> title, val |-> node]
            ELSE items[i]]
    ELSE Append(items, [key |-> title, val |-> node])

\* lines 88-94: one turn of the for loop
OutlineStep ==
    /\ opc = "loop"
    /\ done < Len(heads)
    /\ LET h      == heads[done + 1]
           node   == Len(nodes) + 1
           popped == PopTo(stack, h.level)
           parent == popped[Len(popped)].node
       IN  /\ nodes' = [i \in 1..node |->
                          IF i = node THEN <<>>
                          ELSE IF i = parent THEN DictSet(nodes[i], h.title, node)
                          ELSE nodes[i]]
           /\ stack' = Append(popped, [level |-> h.level, node |-> node])
    /\ done' = done + 1
    /\ UNCHANGED <<heads, otree, opc>>
    /\ UNCHANGED notOutline

\* lines 96-103, _flat_tree: an item with an empty dict gives its key (a
\* str), any other a one-key dict of its key to the flattened dict
RECURSIVE FlatTree(_, _)
FlatTree(ns, n) ==
    [i \in 1..Len(ns[n]) |->
        IF ns[ns[n][i].val] = <<>>
        THEN [form |-> "str", title |-> ns[n][i].key, items |-> <<>>]
        ELSE [form |-> "dict", title |-> ns[n][i].key,
              items |-> FlatTree(ns, ns[n][i].val)]]

\* line 105: return _flat_tree(tree)
OutlineReturn ==
    /\ opc = "loop"
    /\ done = Len(heads)
    /\ otree' = FlatTree(nodes, 1)
    /\ opc' = "returned"
    /\ UNCHANGED <<heads, done, nodes, stack>>
    /\ UNCHANGED notOutline

(***************************************************************************)
(* The mermaid filter (mermaid.py 37-90)                                   *)
(***************************************************************************)

NoImage ==
    [alt |-> "", url |-> [hash |-> "", ext |-> ""], title |-> "",
     attributes |-> EmptyFn, classes |-> {}, identifier |-> ""]

MPending ==
    [kind |-> "pending", identifier |-> "", caption |-> "", image |-> NoImage]

AttrNames == {"caption", "alt", "title", "width"}

AttrValues == {"", "text"}

Elems ==
    [type       : {"CodeBlock", "Para"},
     classes    : {{"mermaid"}, {"mermaid", "wide"}, {"python"}},
     identifier : {"", "fig1"},
     attributes : UNION {[S -> AttrValues] : S \in SUBSET AttrNames},
     text       : {"graph"}]

Formats == {"html", "markdown", "pdf", "latex", "docx"}

MermaidInit ==
    /\ elem \in Elems
    /\ docformat \in Formats
    /\ rendered \in BOOLEAN
    /\ mres = MPending

MermaidIdle ==
    /\ elem = [type |-> "Para", classes |-> {"python"}, identifier |-> "",
               attributes |-> EmptyFn, text |-> "graph"]
    /\ docformat = "html"
    /\ rendered = TRUE
    /\ mres = MPending

\* line 46
IsDiagram(e) == e.type = "CodeBlock" /\ "mermaid" \in e.classes

\* lines 48-53
FileType(format) ==
    CASE format \in {"html", "markdown"} -> "svg"
      [] format \in {"pdf", "latex"} -> "pdf"
      [] OTHER -> "png"

\* dict.pop(key, default): the value
PopValue(attrs, key, default) ==
    IF key \in DOMAIN attrs THEN attrs[key] ELSE default

\* dict.pop(key, default): the dict afterwards
PopRest(attrs, key) == [a \in DOMAIN attrs \ {key} |-> attrs[a]]

\* lines 61-88: the element that replaces a rendered diagram block; None
\* stands for the attribute default None, a text is truthy when not empty
Replacement(e, format) ==
    LET caption_text == PopValue(e.attributes, "caption", "None")
        has_caption  == caption_text \notin {"None", ""}
        attrs1       == PopRest(e.attributes, "caption")
        alt_text     == PopValue(attrs1, "alt", "None")
        attrs2       == PopRest(attrs1, "alt")
        alt          == IF alt_text \notin {"None", ""} THEN alt_text
                        ELSE IF has_caption THEN caption_text
                        ELSE "Mermaid Diagram"
        image        == [alt        |-> alt,
                         url        |-> [hash |-> e.text, ext |-> FileType(format)],
                         title      |-> PopValue(attrs2, "title", ""),
                         attributes |-> PopRest(attrs2, "title"),
                         classes    |-> e.classes,
                         identifier |-> IF has_caption THEN e.identifier ELSE ""]
    IN  IF has_caption
        THEN [kind |-> "Figure", identifier |-> e.identifier,
              caption |-> caption_text, image |-> image]
        ELSE [kind |-> "Plain", identifier |-> "", caption |-> "", image |-> image]

\* line 90: not a diagram block, the filter returns None
MermaidPass ==
    /\ mres.kind = "pending"
    /\ ~IsDiagram(elem)
    /\ mres' = [MPending EXCEPT !.kind = "None"]
    /\ UNCHANGED <<elem, docformat, rendered>>
    /\ UNCHANGED notMermaid

\* lines 33-34, 58: mmdc fails, RuntimeError leaves the filter
MermaidRaise ==
    /\ mres.kind = "pending"
    /\ IsDiagram(elem)
    /\ ~rendered
    /\ mres' = [MPending EXCEPT !.kind = "RuntimeError"]
    /\ UNCHANGED <<elem, docformat, rendered>>
    /\ UNCHANGED notMermaid

\* lines 46-88: the diagram is rendered and the block replaced
MermaidReplace ==
    /\ mres.kind = "pending"
    /\ IsDiagram(elem)
    /\ rendered
    /\ mres' = Replacement(elem, docformat)
    /\ UNCHANGED <<elem, docformat, rendered>>
    /\ UNCHANGED notMermaid

(***************************************************************************)
(* Specifications                                                          *)
(***************************************************************************)
DriverIdle ==
    /\ pc = "DONE"
    /\ input = <<>>
    /\ conv = [mode |-> "any", U |-> {}]
    /\ fm = YNone
    /\ fm0 = YNone
    /\ diag = FALSE
    /\ files = EmptyFn
    /\ path = 0
    /\ created = 0
    /\ res = <<>>
    /\ exit = [code |-> 0, traceback |-> FALSE]
    /\ outcome = "none"
    /\ named = <<>>
    /\ invokes = 0
    /\ misses = 0
    /\ lastDefaults = YNone

\* the build driver, the file system never failing
Init == DriverInit /\ FmIdle /\ OutlineIdle /\ MermaidIdle

Next ==
    \/ Start
    \/ WriteDefaults
    \/ InvokeSuccess
    \/ InvokeUnknownOption
    \/ InvokeOtherError
    \/ StripKey
    \/ StripKeyNoDict
    \/ MainExit

Spec == Init /\ [][Next]_vars

\* the build driver, writing the defaults file may fail
NextIO == Next \/ WriteDefaultsFail

SpecIO == Init /\ [][NextIO]_vars

\* frontmatter on document texts
InitFM == FmInit /\ DriverIdle /\ OutlineIdle /\ MermaidIdle

NextFM == FmReturn \/ FmRaise

SpecFM == InitFM /\ [][NextFM]_vars

\* outline_as_tree on outlines
InitOutline == OutlineInit /\ DriverIdle /\ FmIdle /\ MermaidIdle

NextOutline == OutlineStep \/ OutlineReturn

SpecOutline == InitOutline /\ [][NextOutline]_vars

\* the mermaid filter on elements
InitMermaid == MermaidInit /\ DriverIdle /\ FmIdle /\ OutlineIdle

NextMermaid == MermaidPass \/ MermaidRaise \/ MermaidReplace

SpecMermaid == InitMermaid /\ [][NextMermaid]_vars

(***************************************************************************)
(* Properties of the build driver                                          *)
(***************************************************************************)
\* the transitions of the state machine of section 4.3
LoopTransitions ==
    {<<"START", "WRITE_DEFAULTS">>, <<"WRITE_DEFAULTS", "INVOKE">>,
     <<"INVOKE", "DONE">>, <<"INVOKE", "STRIP_KEY">>,
     <<"STRIP_KEY", "WRITE_DEFAULTS">>, <<"INVOKE", "FAIL">>}

\* the loop runs on a frontmatter mapping (or has not extracted it yet)
OnMapping == pc = "START" \/ fm0.kind = "map"

Restrict(f, K) == [k \in DOMAIN f \cap K |-> f[k]]

C2_AtMostKeysPlusOne ==
    fm0.kind = "map" => invokes <= Cardinality(DOMAIN fm0.m) + 1

\* C2 amended: every invocation but the first follows an unknown-option
\* error that either removed a key or named an option that is no key (a
\* miss, which leaves the mapping as it was and is retried); so with no miss
\* the driver performs at most n + 1 invocations, and each miss allows one
\* more
C2_BoundedUpToMisses ==
    (fm0.kind = "map" /\ pc # "START") =>
        /\ fm.kind = "map"
        /\ DOMAIN fm.m \subseteq DOMAIN fm0.m
        /\ invokes <= (Cardinality(DOMAIN fm0.m) - Cardinality(DOMAIN fm.m))
                      + misses + 1
        /\ pc = "WRITE_DEFAULTS" =>
              invokes = (Cardinality(DOMAIN fm0.m) - Cardinality(DOMAIN fm.m))
                        + misses

\* C2 witness: every key of a two-key mapping was stripped without a miss
\* and the third invocation succeeded
C2_Witness ==
    /\ pc = "DONE"
    /\ fm0.kind = "map"
    /\ Cardinality(DOMAIN fm0.m) = 2
    /\ misses = 0
    /\ invokes = 3

\* the stub's run on a frontmatter mapping M
StubRun == conv.mode = "stub" /\ fm0.kind = "map" /\ pc # "START"

\* C3: with the stub for a set U of option names and a frontmatter mapping
\* M, the driver never fails; every retry has removed one more key of M
\* that is in U and nothing else, so the converter is invoked at most once
\* per key of M in U and once more and the loop ends; and at DONE the
\* defaults read by the last invocation are M without the keys of U, the
\* other keys with their values
C3_StubStripsExactlyU ==
    StubRun =>
        /\ pc \in {"WRITE_DEFAULTS", "INVOKE", "STRIP_KEY", "DONE"}
        /\ fm.kind = "map"
        /\ fm.m = Restrict(fm0.m, DOMAIN fm.m)
        /\ (DOMAIN fm0.m \ DOMAIN fm.m) \subseteq conv.U
        /\ pc \in {"WRITE_DEFAULTS", "INVOKE"} =>
              invokes = Cardinality(DOMAIN fm0.m \ DOMAIN fm.m)
        /\ invokes <= Cardinality(DOMAIN fm0.m \cap conv.U) + 1
        /\ pc = "DONE" =>
              /\ lastDefaults = YMap(Restrict(fm0.m, DOMAIN fm0.m \ conv.U))
              /\ fm = lastDefaults

\* C3 witness: the stub run ended in DONE after stripping a key of U while
\* a key outside U stayed
C3_Witness ==
    /\ conv.mode = "stub"
    /\ pc = "DONE"
    /\ fm0.kind = "map"
    /\ DOMAIN fm0.m \cap conv.U # {}
    /\ DOMAIN fm0.m \ conv.U # {}
    /\ invokes = Cardinality(DOMAIN fm0.m \cap conv.U) + 1

\* C4 as claimed: a defaults file exists only inside the using_defaults
\* scope (while the converter is about to run), never more than one, and
\* none once the scope is left, however it is left
C4_DefaultsFileDeleted ==
    /\ Cardinality(DOMAIN files) <= 1
    /\ pc # "INVOKE" => DOMAIN files = {}

Blank(t, from, to) == \A i \in from..to : t[i] \in Whitespace

\* b is t without its leading and trailing whitespace
IsTrimOf(b, t) ==
    \E i \in 0..Len(t) : \E j \in i..Len(t) :
        /\ b = SubSeq(t, i + 1, j)
        /\ Blank(t, 1, i)
        /\ Blank(t, j + 1, Len(t))
        /\ b # <<>> => (b[1] \notin Whitespace /\ b[Len(b)] \notin Whitespace)

\* the first characters of t that are no whitespace are the marker
MarkerAfterBlank(t) ==
    \E i \in 0..Len(t) : Blank(t, 1, i) /\ OccursAt(t, Txt_Marker, i)

\* C6 as claimed: for a text that does not begin with the marker the
\* extractor returns the empty mapping and the text itself
C6_AbsenceVerbatim ==
    (~StartsWith(doc, Txt_Marker) /\ fmres.st # "pending") =>
        /\ fmres.st = "returned"
        /\ fmres.loaded = YMap(EmptyFn)
        /\ fmres.body = doc

\* C6 amended: for a text whose first characters after any leading
\* whitespace are not the marker, the extractor returns the empty mapping
\* and the text without its leading and trailing whitespace (the text
\* itself exactly when it has none)
C6_AbsenceTrimmed ==
    (~MarkerAfterBlank(doc) /\ fmres.st # "pending") =>
        /\ fmres.st = "returned"
        /\ fmres.loaded = YMap(EmptyFn)
        /\ IsTrimOf(fmres.body, doc)

\* C6 witness: a text without marker that ends in whitespace was returned
\* without it
C6_Witness ==
    /\ fmres.st = "returned"
    /\ ~MarkerAfterBlank(doc)
    /\ doc # <<>>
    /\ doc[Len(doc)] \in Whitespace
    /\ fmres.body # <<>>
    /\ fmres.body # doc

\* C7: extracting from "---\n" + dump(M) + "\n---\n" + body returns M and
\* body
C7_RoundTrip ==
    (given.kind = "built" /\ fmres.st # "pending") =>
        /\ fmres.st = "returned"
        /\ fmres.loaded = YMap(given.M)
        /\ fmres.body = given.body

HasMarker(t) == Find(t, Txt_Marker, 0) # -1

\* the round trip where it does hold: no "---" in a key or value of M and
\* no whitespace at either end of body
RoundTripPlain ==
    (/\ given.kind = "built"
     /\ fmres.st # "pending"
     /\ \A k \in DOMAIN given.M : ~HasMarker(k) /\ ~HasMarker(given.M[k])
     /\ IsTrimOf(given.body, given.body)) =>
        /\ fmres.st = "returned"
        /\ fmres.loaded = YMap(given.M)
        /\ fmres.body = given.body

(***************************************************************************)
(* Properties of outline_as_tree                                           *)
(***************************************************************************)
\* the nearest heading before i of a lower level (0: none, top level)
ParentOf(hs, i) ==
    LET lower == {j \in 1..(i - 1) : hs[j].level < hs[i].level}
    IN  IF lower = {} THEN 0 ELSE CHOOSE j \in lower : \A k \in lower : k <= j

\* the positions in increasing order
RECURSIVE Ascending(_)
Ascending(S) ==
    IF S = {} THEN <<>>
    ELSE LET least == CHOOSE i \in S : \A j \in S : i <= j
         IN  <<least>> \o Ascending(S \ {least})

ChildrenOf(hs, p) == Ascending({i \in 1..Len(hs) : ParentOf(hs, i) = p})

\* the tree the outline stands for: under p its children in order, a
\* heading without children a bare title, any other a one-key mapping
RECURSIVE OutlineOf(_, _)
OutlineOf(hs, p) ==
    LET cs == ChildrenOf(hs, p)
    IN  [n \in 1..Len(cs) |->
            IF ChildrenOf(hs, cs[n]) = <<>>
            THEN [form |-> "str", title |-> hs[cs[n]].title, items |-> <<>>]
            ELSE [form |-> "dict", title |-> hs[cs[n]].title,
                  items |-> OutlineOf(hs, cs[n])]]

\* the titles of a tree in pre-order
RECURSIVE PreOrder(_)
PreOrder(items) ==
    IF items = <<>> THEN <<>>
    ELSE <<items[1].title>> \o PreOrder(items[1].items) \o PreOrder(Tail(items))

TitlesOf(hs) == [i \in 1..Len(hs) |-> hs[i].title]

\* C9: outline_as_tree returns the tree in which each heading lies under
\* the nearest preceding heading of lower level, siblings in encounter
\* order, a heading without children as a bare title and one with children
\* as a one-key mapping to the list of its children
C9_OutlineNesting == opc = "returned" => otree = OutlineOf(heads, 0)

\* C10: the pre-order of the returned tree is the sequence of the input
\* titles: no heading is lost, replaced or moved
C10_NoHeadingLost == opc = "returned" => PreOrder(otree) = TitlesOf(heads)

\* no title occurs twice under one parent
SiblingsDistinct(hs) ==
    \A i, j \in 1..Len(hs) :
        (i # j /\ ParentOf(hs, i) = ParentOf(hs, j)) => hs[i].title # hs[j].title

\* the nesting where it does hold: outlines without equal titles under one
\* parent
OutlineNestingDistinct ==
    (opc = "returned" /\ SiblingsDistinct(heads)) =>
        /\ otree = OutlineOf(heads, 0)
        /\ PreOrder(otree) = TitlesOf(heads)

(***************************************************************************)
(* Properties of the mermaid filter                                        *)
(***************************************************************************)
\* C8: a rendered diagram block with a caption attribute is replaced by a
\* figure that carries the block's identifier while the image inside does
\* not; one without by a plain paragraph whose image has no identifier
C8_IdentifierMigrates ==
    mres.kind \in {"Figure", "Plain"} =>
        IF "caption" \in DOMAIN elem.attributes
        THEN /\ mres.kind = "Figure"
             /\ mres.identifier = elem.identifier
             /\ mres.image.identifier = ""
        ELSE /\ mres.kind = "Plain"
             /\ mres.image.identifier = ""

\* what the filter does build: a figure exactly for a caption that is not
\* empty, and then figure and image both carry the block's identifier
ReplacementAsBuilt ==
    mres.kind \in {"Figure", "Plain"} =>
        IF "caption" \in DOMAIN elem.attributes /\ elem.attributes["caption"] # ""
        THEN /\ mres.kind = "Figure"
             /\ mres.identifier = elem.identifier
             /\ mres.image.identifier = elem.identifier
        ELSE /\ mres.kind = "Plain"
             /\ mres.image.identifier = ""

====
